---- MODULE Spec2Model ----
(***************************************************************************)
(* Static blog generator (build script): front-matter parsing, date        *)
(* resolution, post loading, sorting and linking, pagination, emission.    *)
(*                                                                         *)
(* Strings are sequences of one-character strings, so that slicing,        *)
(* trimming and regular-expression matching are computed character by      *)
(* character.  Timestamps are counted in days since 1970-01-01 (UTC).      *)
(***************************************************************************)
EXTENDS Integers, Sequences, FiniteSets, TLC

VARIABLES
    \* ---- the build (build(), getPosts(), generatePosts(), generateIndex())
    pc,           \* position of the build
    pageSize,     \* configured page size (POSTS_PER_PAGE)
    docsExists,   \* whether DOCS_DIR exists
    docs,         \* directory entries of DOCS_DIR, in enumeration order
    files,        \* getPosts: the entries kept by the .md filter
    idx,          \* getPosts: next element of files.map
    posts,        \* the post list (getPosts' result once it has returned)
    postPages,    \* slugs of the files written to dist/posts
    indexPages,   \* the index pages written, in order of writing
    page,         \* generateIndex: loop variable
    totalPages,   \* generateIndex: totalPages
    log,          \* console.log output
    \* ---- parseFrontmatter applied to a string, and to the body it returned
    ppc,          \* position of the parsing run
    meta,         \* the mapping serialized in front of the input (or NoBlock)
    tail,         \* the text after the serialized block (the whole input if none)
    raw,          \* the input of parseFrontmatter
    result,       \* parseFrontmatter(raw)
    again         \* parseFrontmatter(result.body)

buildVars == <<pc, pageSize, docsExists, docs, files, idx, posts, postPages,
               indexPages, page, totalPages, log>>
parseVars == <<ppc, meta, tail, raw, result, again>>
vars == <<pc, pageSize, docsExists, docs, files, idx, posts, postPages,
          indexPages, page, totalPages, log, ppc, meta, tail, raw, result, again>>

(***************************************************************************)
(* Bounds                                                                  *)
(***************************************************************************)
MaxTokens == 5     \* tokens in the text given to parseFrontmatter
MaxFiles == 3      \* entries of a docs directory with varied content
MaxPlain == 25     \* entries of a docs directory of plain posts
MaxPageSize == 12  \* page sizes 1..MaxPageSize are tried on the plain directories

(***************************************************************************)
(* Characters and string helpers (the String methods the code uses)        *)
(***************************************************************************)
NL == "\n"
CR == "\r"
DASHES == <<"-", "-", "-">>

Min(a, b) == IF a < b THEN a ELSE b
Max(a, b) == IF a > b THEN a ELSE b

\* \s of the regular expressions, and the characters trim() removes
IsWs(c) == c \in {" ", "\t", NL, CR}

\* s.slice(from) / s.slice(from, to), 0-based, end exclusive, clamped
Slice(s, from, to) ==
    LET f == Min(Max(from, 0), Len(s))
        t == Min(Max(to, 0), Len(s))
    IN  IF t <= f THEN <<>> ELSE SubSeq(s, f + 1, t)

\* true iff s holds t at 1-based position i
HasAt(s, i, t) ==
    /\ i >= 1
    /\ i + Len(t) - 1 <= Len(s)
    /\ \A j \in 1..Len(t) : s[i + j - 1] = t[j]

\* number of whitespace characters of s from 1-based position i on (greedy \s*)
RECURSIVE WsRun(_, _)
WsRun(s, i) == IF i <= Len(s) /\ IsWs(s[i]) THEN 1 + WsRun(s, i + 1) ELSE 0

\* number of whitespace characters at the end of s
RECURSIVE WsTail(_)
WsTail(s) ==
    IF Len(s) > 0 /\ IsWs(s[Len(s)]) THEN 1 + WsTail(SubSeq(s, 1, Len(s) - 1)) ELSE 0

\* s.trim()
Trim(s) ==
    LET lead == WsRun(s, 1)
    IN  IF lead = Len(s) THEN <<>> ELSE SubSeq(s, lead + 1, Len(s) - WsTail(s))

\* s.indexOf(c), 0-based, -1 when absent
RECURSIVE IndexFrom(_, _, _)
IndexFrom(s, c, i) ==
    IF i > Len(s) THEN -1
    ELSE IF s[i] = c THEN i - 1
    ELSE IndexFrom(s, c, i + 1)
IndexOf(s, c) == IndexFrom(s, c, 1)

\* s.split(/\r?\n/)
RECURSIVE SplitFrom(_, _, _)
SplitFrom(s, i, cur) ==
    IF i > Len(s) THEN <<cur>>
    ELSE IF s[i] = CR /\ i < Len(s) /\ s[i + 1] = NL
         THEN <<cur>> \o SplitFrom(s, i + 2, <<>>)
    ELSE IF s[i] = NL THEN <<cur>> \o SplitFrom(s, i + 1, <<>>)
    ELSE SplitFrom(s, i + 1, Append(cur, s[i]))
SplitLines(s) == SplitFrom(s, 1, <<>>)

(***************************************************************************)
(* parseFrontmatter: the match of                                          *)
(*     /^---\s*\r?\n([\s\S]*?)\r?\n---\s*\r?\n?/                           *)
(* by the backtracking order of the regular expression: the first \s* is   *)
(* greedy (longest run first), the group is lazy (nearest closer first),   *)
(* and the trailing \s*\r?\n? never fails, so it takes the longest run.    *)
(***************************************************************************)
\* position after ^---\s{k}\r?\n, or 0 when that does not match
OpenEnd(s, k) ==
    IF ~HasAt(s, 1, DASHES) \/ k > WsRun(s, 4) THEN 0
    ELSE IF HasAt(s, 4 + k, <<CR, NL>>) THEN 6 + k
    ELSE IF HasAt(s, 4 + k, <<NL>>) THEN 5 + k
    ELSE 0

\* length of the match of \r?\n--- at position q, or 0
CloseAt(s, q) ==
    IF HasAt(s, q, <<CR, NL>> \o DASHES) THEN 5
    ELSE IF HasAt(s, q, <<NL>> \o DASHES) THEN 4
    ELSE 0

\* the first position q >= p where \r?\n--- matches (lazy group), or 0
RECURSIVE FirstClose(_, _)
FirstClose(s, p) ==
    IF p > Len(s) THEN 0
    ELSE IF CloseAt(s, p) > 0 THEN p
    ELSE FirstClose(s, p + 1)

\* the match of the expression at 1-based position i of content (a search
\* that is not anchored tries every position)
MatchFrom(content, i) ==
    LET rest == SubSeq(content, i, Len(content))
        ks == {k \in 0..WsRun(rest, 4) :
                  /\ OpenEnd(rest, k) > 0
                  /\ FirstClose(rest, OpenEnd(rest, k)) > 0}
    IN  IF ks = {} THEN [found |-> FALSE, group |-> <<>>, length |-> 0]
        ELSE LET k == CHOOSE x \in ks : \A y \in ks : y <= x
                 p == OpenEnd(rest, k)
                 q == FirstClose(rest, p)
                 e == q + CloseAt(rest, q)
             IN  [found |-> TRUE,
                  group |-> SubSeq(rest, p, q - 1),
                  length |-> e - 1 + WsRun(rest, e)]

\* Match with the ^ anchor left out: the first position where the rest matches
MatchUnanchored(content) ==
    LET starts == {i \in 1..Len(content) : MatchFrom(content, i).found}
    IN  IF starts = {} THEN [found |-> FALSE, group |-> <<>>, length |-> 0]
        ELSE MatchFrom(content, CHOOSE i \in starts : \A j \in starts : i <= j)

\* content.match(...): [found, group (match[1]), length (match[0].length)]
Match(content) ==
    LET ks == {k \in 0..WsRun(content, 4) :
                  /\ OpenEnd(content, k) > 0
                  /\ FirstClose(content, OpenEnd(content, k)) > 0}
    IN  IF ks = {} THEN [found |-> FALSE, group |-> <<>>, length |-> 0]
        ELSE LET k == CHOOSE x \in ks : \A y \in ks : y <= x
                 p == OpenEnd(content, k)
                 q == FirstClose(content, p)
                 e == q + CloseAt(content, q)
             IN  [found |-> TRUE,
                  group |-> SubSeq(content, p, q - 1),
                  length |-> e - 1 + WsRun(content, e)]

\* data[key] = value on a mapping kept as a set of <<key, value>> pairs
SetKey(data, key, value) == {kv \in data : kv[1] # key} \cup {<<key, value>>}

\* one iteration of the loop over the lines of the block
ParseLine(data, line) ==
    LET trimmed == Trim(line)
        sepIndex == IndexOf(trimmed, ":")
        key == Trim(Slice(trimmed, 0, sepIndex))
        value == Trim(Slice(trimmed, sepIndex + 1, Len(trimmed)))
    IN  IF trimmed = <<>> \/ trimmed[1] = "#" THEN data
        ELSE IF sepIndex = -1 THEN data
        ELSE IF key # <<>> THEN SetKey(data, key, value)
        ELSE data

RECURSIVE ParseLines(_, _, _)
ParseLines(data, lines, i) ==
    IF i > Len(lines) THEN data
    ELSE ParseLines(ParseLine(data, lines[i]), lines, i + 1)

parseFrontmatter(content) ==
    LET match == Match(content)
    IN  IF ~match.found THEN [data |-> {}, body |-> content]
        ELSE [data |-> ParseLines({}, SplitLines(match.group), 1),
              body |-> Slice(content, match.length, Len(content))]

(***************************************************************************)
(* Inputs of the parsing runs: a text of at most MaxTokens tokens, alone or *)
(* behind a serialized front-matter block.                                  *)
(***************************************************************************)
Tokens == {DASHES, <<NL>>, <<"a">>, <<" ">>}

RECURSIVE TokenStrings(_)
TokenStrings(n) ==
    IF n = 0 THEN {<<>>}
    ELSE LET shorter == TokenStrings(n - 1)
         IN  shorter \cup {s \o t : s \in shorter, t \in Tokens}

KeyOrder == <<<<"k">>, <<"t">>>>
Keys == {KeyOrder[i] : i \in 1..Len(KeyOrder)}
Values == {<<"v">>, <<"1", ":", "2">>}
NoBlock == {<<<<>>, <<>>>>}     \* not a mapping: the key is empty

\* every mapping from a subset of Keys to Values
Mappings ==
    UNION {{{<<k, f[k]>> : k \in ks} : f \in [ks -> Values]} : ks \in SUBSET Keys}

\* the value of key in data (data[key]), <<>> when absent
Lookup(data, key) ==
    IF \E kv \in data : kv[1] = key
    THEN (CHOOSE kv \in data : kv[1] = key)[2]
    ELSE <<>>

\* "key: value" lines of m, in KeyOrder
RECURSIVE KeyLines(_, _)
KeyLines(m, i) ==
    IF i > Len(KeyOrder) THEN <<>>
    ELSE (IF \E kv \in m : kv[1] = KeyOrder[i]
          THEN KeyOrder[i] \o <<":", " ">> \o Lookup(m, KeyOrder[i]) \o <<NL>>
          ELSE <<>>) \o KeyLines(m, i + 1)

\* m between two --- delimiter lines
Serialize(m) == DASHES \o <<NL>> \o KeyLines(m, 1) \o DASHES \o <<NL>>

ParseInit ==
    /\ ppc = "input"
    /\ meta \in {NoBlock} \cup Mappings
    /\ tail \in TokenStrings(MaxTokens)
    /\ raw = IF meta = NoBlock THEN tail ELSE Serialize(meta) \o tail
    /\ result = [data |-> {}, body |-> <<>>]
    /\ again = [data |-> {}, body |-> <<>>]

Parse ==
    /\ ppc = "input"
    /\ result' = parseFrontmatter(raw)
    /\ ppc' = "parsed"
    /\ UNCHANGED <<meta, tail, raw, again>>

Reparse ==
    /\ ppc = "parsed"
    /\ again' = parseFrontmatter(result.body)
    /\ ppc' = "reparsed"
    /\ UNCHANGED <<meta, tail, raw, result>>

(***************************************************************************)
(* Dates.  A Date is [kind, time]: kind "date" with time = getTime() in     *)
(* days, kind "invalid" for an Invalid Date (getTime() is NaN), and NULL    *)
(* for JavaScript's null.                                                   *)
(***************************************************************************)
POSTS_PER_PAGE == 10

NULL == [kind |-> "null", time |-> 0]
InvalidDate == [kind |-> "invalid", time |-> 0]
DateOf(t) == [kind |-> "date", time |-> t]

Digits == <<"0", "1", "2", "3", "4", "5", "6", "7", "8", "9">>
IsDigit(c) == \E d \in 1..Len(Digits) : Digits[d] = c
DigitVal(c) == (CHOOSE d \in 1..Len(Digits) : Digits[d] = c) - 1

\* day number of January 1st of year y (ECMAScript DayFromYear)
DayFromYear(y) ==
    365 * (y - 1970) + ((y - 1969) \div 4) - ((y - 1901) \div 100) + ((y - 1601) \div 400)

\* new Date(value) for the strings of the model: a four-digit year "YYYY" is
\* the ISO date-only form (midnight UTC, January 1st); the other strings the
\* model feeds it hold no digit and give an Invalid Date.
NewDate(value) ==
    IF Len(value) = 4 /\ \A i \in 1..4 : IsDigit(value[i])
    THEN DateOf(DayFromYear(1000 * DigitVal(value[1]) + 100 * DigitVal(value[2])
                            + 10 * DigitVal(value[3]) + DigitVal(value[4])))
    ELSE InvalidDate

\* Number.isNaN(parsed.getTime())
IsNaNTime(d) == d.kind = "invalid"

\* parseFrontmatterDate without the Number.isNaN check
parseDateUnchecked(value) ==
    IF value = <<>> THEN NULL ELSE NewDate(value)

parseFrontmatterDate(value) ==
    IF value = <<>> THEN NULL
    ELSE LET parsed == NewDate(value)
         IN  IF IsNaNTime(parsed) THEN NULL ELSE parsed

(***************************************************************************)
(* The docs directory.  An entry is a file: stem (name without extension,   *)
(* here its position in the enumeration), md (name ends in ".md"),          *)
(* readable (readFileSync succeeds), content, mtime.                        *)
(***************************************************************************)
Str_created == <<"c", "r", "e", "a", "t", "e", "d">>
Str_updated == <<"u", "p", "d", "a", "t", "e", "d">>
Str_date == <<"d", "a", "t", "e">>
Y1969 == <<"1", "9", "6", "9">>
Y1970 == <<"1", "9", "7", "0">>
Y2023 == <<"2", "0", "2", "3">>
Y2024 == <<"2", "0", "2", "4">>
Soon == <<"s", "o", "o", "n">>

PlainDoc == <<"h", "i">>
FieldDoc(key, text) ==
    DASHES \o <<NL>> \o key \o <<":", " ">> \o text \o <<NL>> \o DASHES \o <<NL>> \o PlainDoc

Contents ==
    {PlainDoc, FieldDoc(Str_date, Y2024)}
    \cup {FieldDoc(Str_created, t) : t \in {Y1969, Y1970, Y2023, Soon}}

MtimeOf(i) == 19000 + i

MdFile(i, c) ==
    [stem |-> i, md |-> TRUE, readable |-> TRUE, content |-> c, mtime |-> MtimeOf(i)]
OtherFile(i) ==
    [stem |-> i, md |-> FALSE, readable |-> TRUE, content |-> PlainDoc, mtime |-> MtimeOf(i)]
UnreadableFile(i) ==
    [stem |-> i, md |-> TRUE, readable |-> FALSE, content |-> <<>>, mtime |-> MtimeOf(i)]

EntryChoices(i) == {OtherFile(i), UnreadableFile(i)} \cup {MdFile(i, c) : c \in Contents}

RECURSIVE DirsOfLen(_)
DirsOfLen(n) ==
    IF n = 0 THEN {<<>>}
    ELSE {Append(d, e) : d \in DirsOfLen(n - 1), e \in EntryChoices(n)}

VariedDirs == UNION {DirsOfLen(n) : n \in 0..MaxFiles}
PlainDirs == {[i \in 1..n |-> MdFile(i, PlainDoc)] : n \in 0..MaxPlain}
PageSizes == 1..MaxPageSize

Msg(m, n) == [msg |-> m, n |-> n]

BuildInit ==
    /\ pc = "start"
    /\ \/ docsExists = FALSE /\ docs = <<>> /\ pageSize = POSTS_PER_PAGE
       \/ docsExists = TRUE /\ docs \in VariedDirs /\ pageSize = POSTS_PER_PAGE
       \/ docsExists = TRUE /\ docs \in PlainDirs /\ pageSize \in PageSizes
    /\ files = <<>>
    /\ idx = 0
    /\ posts = <<>>
    /\ postPages = {}
    /\ indexPages = <<>>
    /\ page = 0
    /\ totalPages = 0
    /\ log = <<>>

(***************************************************************************)
(* getPosts                                                                *)
(***************************************************************************)
\* the callback of files.map, for a file that was read
MakePost(file) ==
    LET frontmatter == parseFrontmatter(file.content)
        createdText == Lookup(frontmatter.data, Str_created)
        updatedText == Lookup(frontmatter.data, Str_updated)
    IN  [slug |-> file.stem,
         title |-> file.stem,
         createdAt |-> parseFrontmatterDate(createdText),
         updatedAt |-> parseFrontmatterDate(updatedText),
         createdAtFormatted |-> createdText,
         updatedAtFormatted |-> updatedText,
         prev |-> 0,
         next |-> 0]

\* b.createdAt ? b.createdAt.getTime() : 0
SortKey(p) == IF p.createdAt # NULL THEN p.createdAt.time ELSE 0

\* the comparator of posts.sort
Compare(a, b) == SortKey(b) - SortKey(a)

\* Array.prototype.sort is stable: x goes behind every element that does not
\* compare greater than it
RECURSIVE InsertPost(_, _)
InsertPost(sorted, x) ==
    IF sorted = <<>> THEN <<x>>
    ELSE IF Compare(Head(sorted), x) > 0 THEN <<x>> \o sorted
    ELSE <<Head(sorted)>> \o InsertPost(Tail(sorted), x)

RECURSIVE SortFrom(_, _, _)
SortFrom(sorted, s, i) ==
    IF i > Len(s) THEN sorted
    ELSE SortFrom(InsertPost(sorted, s[i]), s, i + 1)

SortPosts(s) == SortFrom(<<>>, s, 1)

\* LinkPosts with the two neighbours taken the wrong way round
LinkPostsSwapped(s) ==
    [i \in 1..Len(s) |->
        [s[i] EXCEPT !.prev = IF i - 1 >= 1 THEN s[i - 1].slug ELSE 0,
                     !.next = IF i + 1 <= Len(s) THEN s[i + 1].slug ELSE 0]]

\* posts.forEach((post, i) => ...): prev and next refer to the neighbouring
\* post objects, named here by their slug; 0 is null
LinkPosts(s) ==
    [i \in 1..Len(s) |->
        [s[i] EXCEPT !.prev = IF i + 1 <= Len(s) THEN s[i + 1].slug ELSE 0,
                     !.next = IF i - 1 >= 1 THEN s[i - 1].slug ELSE 0]]

\* build(): cleanDist(); copyCss(); copyKatex()
Prepare ==
    /\ pc = "start"
    /\ postPages' = {}
    /\ indexPages' = <<>>
    /\ log' = log \o <<Msg("Building blog...", 0), Msg("CSS files copied.", 0),
                       Msg("KaTeX files copied.", 0)>>
    /\ pc' = "getPosts"
    /\ UNCHANGED <<pageSize, docsExists, docs, files, idx, posts, page, totalPages>>

\* build() after getPosts has returned p
AfterGetPosts(p) == IF Len(p) = 0 THEN "index" ELSE "posts"

\* GetPosts without the fs.existsSync branch: readdirSync throws on a missing
\* directory
GetPostsUnchecked ==
    /\ pc = "getPosts"
    /\ IF ~docsExists
       THEN /\ pc' = "failed"
            /\ UNCHANGED <<docsExists, posts, files, idx, log>>
       ELSE LET kept == SelectSeq(docs, LAMBDA f : f.md)
            IN  IF Len(kept) = 0
                THEN /\ log' = Append(log, Msg("No markdown files found in docs/", 0))
                     /\ posts' = <<>>
                     /\ pc' = AfterGetPosts(<<>>)
                     /\ UNCHANGED <<docsExists, files, idx>>
                ELSE /\ files' = kept
                     /\ idx' = 1
                     /\ pc' = "map"
                     /\ UNCHANGED <<docsExists, posts, log>>
    /\ UNCHANGED <<pageSize, docs, postPages, indexPages, page, totalPages>>

\* getPosts up to files.map
GetPosts ==
    /\ pc = "getPosts"
    /\ IF ~docsExists
       THEN /\ log' = Append(log, Msg("No docs directory found. Creating empty one.", 0))
            /\ docsExists' = TRUE
            /\ posts' = <<>>
            /\ pc' = AfterGetPosts(<<>>)
            /\ UNCHANGED <<files, idx>>
       ELSE LET kept == SelectSeq(docs, LAMBDA f : f.md)
            IN  IF Len(kept) = 0
                THEN /\ log' = Append(log, Msg("No markdown files found in docs/", 0))
                     /\ posts' = <<>>
                     /\ pc' = AfterGetPosts(<<>>)
                     /\ UNCHANGED <<docsExists, files, idx>>
                ELSE /\ files' = kept
                     /\ idx' = 1
                     /\ pc' = "map"
                     /\ UNCHANGED <<docsExists, posts, log>>
    /\ UNCHANGED <<pageSize, docs, postPages, indexPages, page, totalPages>>

\* ReadFile with the read wrapped in a try/catch that skips the file
ReadFileSkipping ==
    /\ pc = "map"
    /\ idx <= Len(files)
    /\ posts' = IF files[idx].readable THEN Append(posts, MakePost(files[idx])) ELSE posts
    /\ idx' = idx + 1
    /\ pc' = IF idx = Len(files) THEN "sort" ELSE "map"
    /\ UNCHANGED <<pageSize, docsExists, docs, files, postPages, indexPages, page,
                   totalPages, log>>

\* one call of the files.map callback; readFileSync throws on an unreadable
\* file and nothing catches it
ReadFile ==
    /\ pc = "map"
    /\ idx <= Len(files)
    /\ IF ~files[idx].readable
       THEN /\ pc' = "failed"
            /\ UNCHANGED <<posts, idx>>
       ELSE /\ posts' = Append(posts, MakePost(files[idx]))
            /\ idx' = idx + 1
            /\ pc' = IF idx = Len(files) THEN "sort" ELSE "map"
    /\ UNCHANGED <<pageSize, docsExists, docs, files, postPages, indexPages, page,
                   totalPages, log>>

\* posts.sort(...); posts.forEach(...); return posts
SortAndLink ==
    /\ pc = "sort"
    /\ posts' = LinkPosts(SortPosts(posts))
    /\ pc' = AfterGetPosts(posts')
    /\ idx' = 1
    /\ UNCHANGED <<pageSize, docsExists, docs, files, postPages, indexPages, page,
                   totalPages, log>>

(***************************************************************************)
(* generatePosts, generateIndex                                            *)
(***************************************************************************)
\* one iteration of the loop of generatePosts
WritePost ==
    /\ pc = "posts"
    /\ idx <= Len(posts)
    /\ postPages' = postPages \cup {posts[idx].slug}
    /\ idx' = idx + 1
    /\ IF idx = Len(posts)
       THEN /\ log' = Append(log, Msg("Generated post pages.", Len(posts)))
            /\ pc' = "index"
       ELSE UNCHANGED <<log, pc>>
    /\ UNCHANGED <<pageSize, docsExists, docs, files, posts, indexPages, page, totalPages>>

\* Math.ceil(n / size)
CeilDiv(n, size) == IF n % size = 0 THEN n \div size ELSE (n \div size) + 1

\* TotalPagesOf computed as floor + 1
TotalPagesFloor(n, size) == (n \div size) + 1

\* const totalPages = Math.max(1, Math.ceil(posts.length / POSTS_PER_PAGE))
TotalPagesOf(n, size) == Max(1, CeilDiv(n, size))

\* PagePosts with the end of the slice one short
PagePostsShort(s, k, size) ==
    LET start == (k - 1) * size
    IN  Slice(s, start, start + size - 1)

\* posts.slice(start, start + POSTS_PER_PAGE), start = (page - 1) * POSTS_PER_PAGE
PagePosts(s, k, size) ==
    LET start == (k - 1) * size
    IN  Slice(s, start, start + size)

IndexFile == <<"index.html">>
PageFile(k) == <<"page", k>>

\* generateIndex up to its loop
StartIndex ==
    /\ pc = "index"
    /\ totalPages' = TotalPagesOf(Len(posts), pageSize)
    /\ page' = 1
    /\ pc' = "pages"
    /\ UNCHANGED <<pageSize, docsExists, docs, files, idx, posts, postPages, indexPages, log>>

\* one iteration of the loop of generateIndex
WritePage ==
    /\ pc = "pages"
    /\ page <= totalPages
    /\ LET pagePosts == PagePosts(posts, page, pageSize)
       IN  indexPages' = Append(indexPages,
                [file |-> IF page = 1 THEN IndexFile ELSE PageFile(page),
                 posts |-> [i \in 1..Len(pagePosts) |-> pagePosts[i].slug],
                 currentPage |-> page,
                 totalPages |-> totalPages])
    /\ page' = page + 1
    /\ IF page = totalPages
       THEN /\ log' = log \o <<Msg("Generated index pages.", totalPages),
                              Msg(IF Len(posts) = 0 THEN "Build complete! (No posts yet)"
                                  ELSE "Build complete!", 0)>>
            /\ pc' = "done"
       ELSE UNCHANGED <<log, pc>>
    /\ UNCHANGED <<pageSize, docsExists, docs, files, idx, posts, postPages, totalPages>>

ParseIdle ==
    /\ ppc = "idle"
    /\ meta = {}
    /\ tail = <<>>
    /\ raw = <<>>
    /\ result = [data |-> {}, body |-> <<>>]
    /\ again = [data |-> {}, body |-> <<>>]

Init == BuildInit /\ ParseIdle

Next ==
    \/ Prepare /\ UNCHANGED parseVars
    \/ GetPosts /\ UNCHANGED parseVars
    \/ ReadFile /\ UNCHANGED parseVars
    \/ SortAndLink /\ UNCHANGED parseVars
    \/ WritePost /\ UNCHANGED parseVars
    \/ StartIndex /\ UNCHANGED parseVars
    \/ WritePage /\ UNCHANGED parseVars

Spec == Init /\ [][Next]_vars

BuildIdle ==
    /\ pc = "idle"
    /\ pageSize = 1
    /\ docsExists = FALSE
    /\ docs = <<>>
    /\ files = <<>>
    /\ idx = 0
    /\ posts = <<>>
    /\ postPages = {}
    /\ indexPages = <<>>
    /\ page = 0
    /\ totalPages = 0
    /\ log = <<>>

ParseNext ==
    \/ Parse /\ UNCHANGED buildVars
    \/ Reparse /\ UNCHANGED buildVars

InitParse == ParseInit /\ BuildIdle

ParseSpec == InitParse /\ [][ParseNext]_vars

(***************************************************************************)
(* Properties of the build                                                 *)
(***************************************************************************)
\* getPosts has returned
Sequenced == pc \in {"posts", "index", "pages", "done"}
\* generateIndex has computed totalPages
Indexing == pc \in {"pages", "done"}

Slugs(s) == [i \in 1..Len(s) |-> s[i].slug]

RECURSIVE ConcatPages(_, _)
ConcatPages(ps, k) == IF k > Len(ps) THEN <<>> ELSE ps[k].posts \o ConcatPages(ps, k + 1)

\* C1: generateIndex emits exactly totalPages = max(1, ceil(n / pageSize)) index
\* pages (the least t >= 1 with t * pageSize >= n): one empty page when n = 0,
\* exactly n / pageSize pages when pageSize divides n > 0, every page carrying
\* the same totalPages and currentPage running 1..totalPages.
C1_PageCount ==
    Indexing =>
        LET n == Len(posts)
        IN  /\ totalPages >= 1
            /\ totalPages * pageSize >= n
            /\ totalPages > 1 => (totalPages - 1) * pageSize < n
            /\ n = 0 => totalPages = 1
            /\ (n > 0 /\ n % pageSize = 0) => totalPages * pageSize = n
            /\ Len(indexPages) = page - 1
            /\ pc = "done" => Len(indexPages) = totalPages
            /\ \A k \in 1..Len(indexPages) :
                   /\ indexPages[k].currentPage = k
                   /\ indexPages[k].totalPages = totalPages
                   /\ indexPages[k].file = IF k = 1 THEN IndexFile ELSE PageFile(k)
            /\ (pc = "done" /\ n = 0) => indexPages[1].posts = <<>>

C1_Witness ==
    /\ pc = "done"
    /\ Len(posts) > pageSize
    /\ Len(posts) % pageSize = 0
    /\ Len(indexPages) * pageSize = Len(posts)

\* C2: page k holds exactly the posts at offsets (k-1)*pageSize through
\* min(n, k*pageSize)-1 in order; the pages concatenated give the post list,
\* each post on exactly one page, every page before the last full, and a
\* pageSize larger than n gives one page with all the posts.
C2_PageSlices ==
    Indexing =>
        LET n == Len(posts)
        IN  /\ \A k \in 1..Len(indexPages) :
                   LET first == (k - 1) * pageSize
                       last == Min(n, k * pageSize) - 1
                   IN  /\ Len(indexPages[k].posts) = last - first + 1
                       /\ \A o \in first..last :
                              indexPages[k].posts[o - first + 1] = posts[o + 1].slug
                       /\ k < totalPages => Len(indexPages[k].posts) = pageSize
            /\ pc = "done" =>
                   /\ ConcatPages(indexPages, 1) = Slugs(posts)
                   /\ \A i \in 1..n :
                          Cardinality({<<k, j>> \in (1..Len(indexPages)) \X (1..pageSize) :
                                          /\ j <= Len(indexPages[k].posts)
                                          /\ indexPages[k].posts[j] = posts[i].slug}) = 1
                   /\ pageSize > n =>
                          /\ Len(indexPages) = 1
                          /\ indexPages[1].posts = Slugs(posts)

C2_Witness ==
    /\ pc = "done"
    /\ Len(indexPages) >= 3
    /\ Len(indexPages[Len(indexPages)].posts) \in 1..(pageSize - 1)

\* C3: the list getPosts returns is ordered newest first, every post with a
\* null timestamp comes after every post with a resolved one (dates before
\* 1970 included), and posts with equal or null timestamps keep their input
\* order.
C3_NewestFirstNullsLast ==
    Sequenced =>
        \A i, j \in 1..Len(posts) :
            i < j =>
                /\ (posts[i].createdAt # NULL /\ posts[j].createdAt # NULL)
                       => posts[i].createdAt.time >= posts[j].createdAt.time
                /\ ~(posts[i].createdAt = NULL /\ posts[j].createdAt # NULL)
                /\ posts[i].createdAt = posts[j].createdAt => posts[i].slug < posts[j].slug

\* C4: after linking, post[i].next is post[i-1] and is absent iff i is the
\* first index, post[i].prev is post[i+1] and is absent iff i is the last; the
\* links are mutually consistent, a single post has neither, and sorting and
\* linking the returned list again changes nothing.
C4_Links ==
    Sequenced =>
        LET n == Len(posts)
        IN  /\ \A i \in 1..n :
                   /\ posts[i].next = IF i = 1 THEN 0 ELSE posts[i - 1].slug
                   /\ posts[i].prev = IF i = n THEN 0 ELSE posts[i + 1].slug
                   /\ posts[i].next = 0 <=> i = 1
                   /\ posts[i].prev = 0 <=> i = n
            /\ \A i, j \in 1..n :
                   posts[i].prev = posts[j].slug <=> posts[j].next = posts[i].slug
            /\ n = 1 => (posts[1].prev = 0 /\ posts[1].next = 0)
            /\ LinkPosts(posts) = posts
            /\ LinkPosts(SortPosts(posts)) = posts

C4_Witness ==
    /\ pc = "done"
    /\ Len(posts) = 3
    /\ posts[1].slug = 2
    /\ posts[2].slug = 1
    /\ posts[3].slug = 3
    /\ posts[3].createdAt = NULL

\* the date each document of the model states in its created field
CreatedOf(c) ==
    IF c = FieldDoc(Str_created, Y1969) THEN DateOf(0 - 365)
    ELSE IF c = FieldDoc(Str_created, Y1970) THEN DateOf(0)
    ELSE IF c = FieldDoc(Str_created, Y2023) THEN DateOf(19358)
    ELSE NULL

\* the date each document states in its date or created field
ExplicitOf(c) == IF c = FieldDoc(Str_date, Y2024) THEN DateOf(19723) ELSE CreatedOf(c)

\* C8 as stated: the explicit date or created field is the canonical timestamp,
\* and when it is absent or unparseable the timestamp is the file's mtime.
C8_MtimeFallback ==
    \A i \in 1..Len(posts) :
        LET f == docs[posts[i].slug]
        IN  posts[i].createdAt =
                IF ExplicitOf(f.content) # NULL THEN ExplicitOf(f.content)
                ELSE DateOf(f.mtime)

\* C8 (amended): the created field parsed as a date is the canonical timestamp
\* of every post; when it is absent or unparseable the timestamp is null (never
\* an invalid date, never the mtime, and no error: the build fails only on an
\* unreadable file).
C8_CreatedOrNull ==
    /\ \A i \in 1..Len(posts) :
           /\ posts[i].createdAt = CreatedOf(docs[posts[i].slug].content)
           /\ posts[i].createdAt.kind \in {"date", "null"}
           /\ posts[i].createdAt = NULL => SortKey(posts[i]) = 0
    /\ pc = "failed" => ~files[idx].readable

C8_Witness ==
    /\ pc = "done"
    /\ \E i, j \in 1..Len(posts) :
           /\ posts[i].createdAtFormatted = Soon
           /\ posts[i].createdAt = NULL
           /\ posts[j].createdAt = DateOf(19358)

\* the build can take its next step: the guard of the action at each position
CanStep ==
    \/ pc \in {"start", "getPosts", "sort", "index"}
    \/ pc = "map" /\ idx <= Len(files)
    \/ pc = "posts" /\ idx <= Len(posts)
    \/ pc = "pages" /\ page <= totalPages

NoMarkdown == \A i \in 1..Len(docs) : ~docs[i].md
EmptyIndex == [file |-> IndexFile, posts |-> <<>>, currentPage |-> 1, totalPages |-> 1]

\* C9: when the docs directory is missing, or holds no .md file, getPosts
\* (creating the missing directory, empty) returns an empty list without
\* raising and the build runs to its end, having written exactly one index
\* page (page 1, no posts, totalPages 1), no numbered page and no post page.
C9_EmptyBuild ==
    NoMarkdown =>
        /\ pc # "failed"
        /\ pc # "done" => CanStep
        /\ pc \notin {"start", "getPosts"} => (docsExists /\ posts = <<>>)
        /\ ~docsExists => docs = <<>>
        /\ postPages = {}
        /\ Len(indexPages) <= 1
        /\ pc = "done" => indexPages = <<EmptyIndex>>

C9_Witness ==
    /\ pc = "done"
    /\ docs = <<>>
    /\ \E i \in 1..Len(log) : log[i].msg = "No docs directory found. Creating empty one."

AnyUnreadable == \E i \in 1..Len(docs) : docs[i].md /\ ~docs[i].readable

\* C10: a failed read aborts the build: when a markdown file cannot be read the
\* build never completes and ends failed, no post page and no index page is
\* written, and a page is only ever written after every markdown file of the
\* directory has been read into a post.
C10_ReadFailureAborts ==
    /\ pc = "failed" => (AnyUnreadable /\ postPages = {} /\ indexPages = <<>>)
    /\ AnyUnreadable =>
           /\ pc # "done"
           /\ pc # "failed" => CanStep
           /\ postPages = {}
           /\ indexPages = <<>>
    /\ (postPages # {} \/ indexPages # <<>>) =>
           \A i \in 1..Len(docs) :
               docs[i].md => \E j \in 1..Len(posts) : posts[j].slug = docs[i].stem

C10_Witness ==
    /\ pc = "failed"
    /\ Len(posts) >= 1
    /\ idx < Len(files)

(***************************************************************************)
(* Properties of parseFrontmatter                                          *)
(***************************************************************************)
\* the input starts with a line that is exactly --- and a later line is
\* exactly ---
WellDelimited(s) ==
    LET ls == SplitLines(s)
    IN  /\ Len(ls) >= 2
        /\ ls[1] = DASHES
        /\ \E j \in 2..Len(ls) : ls[j] = DASHES

NoFrontmatter(s) == [data |-> {}, body |-> s]

\* C5: a block is recognized only when the input starts with a line that is
\* exactly --- and a later line that is exactly --- closes it; every other
\* input comes back as empty metadata and the whole input as body.
C5_OnlyExactDelimiters ==
    ppc \in {"parsed", "reparsed"} =>
        (~WellDelimited(raw) => result = NoFrontmatter(raw))

\* C6: a mapping serialized between two --- lines in front of a body is
\* recovered exactly, with the body, by parseFrontmatter.
C6_RoundTrip ==
    (ppc \in {"parsed", "reparsed"} /\ meta # NoBlock) =>
        result = [data |-> meta, body |-> tail]

\* C7 as stated: parsing the body parseFrontmatter returned yields no
\* front-matter and the same body.
C7_Idempotent ==
    ppc = "reparsed" => again = NoFrontmatter(result.body)

\* C7 (amended): parsing the body parseFrontmatter returned yields no
\* front-matter and the same body, unless that body itself starts with ---.
C7_IdempotentUnlessDashes ==
    ppc = "reparsed" =>
        (~HasAt(result.body, 1, DASHES) => again = NoFrontmatter(result.body))

C7_Witness ==
    /\ ppc = "reparsed"
    /\ result.data # {}
    /\ result.body # <<>>
    /\ ~HasAt(result.body, 1, DASHES)
    /\ again = NoFrontmatter(result.body)

====
